---- MODULE Spec2Model ----
(***************************************************************************)
(* Model of the game core of Arsenic-ATG/Snake: game::Snake and            *)
(* game::Board of src/src/snake.hpp and src/src/snake.cpp.                 *)
(*                                                                         *)
(* A state is the Board object (grid_size, init_snake_coords, food_loc)    *)
(* with the Snake it owns (head, body, direction), plus `call`, a record   *)
(* of the public operation that produced the state: its name, its          *)
(* argument and what it returned (for update_snake_dir: the requested      *)
(* direction, and whether it was two enumerators away from the direction   *)
(* the snake had when the call was made).                                  *)
(*                                                                         *)
(* Spec lets a caller make any sequence of calls of the public Board       *)
(* operations.  SessionSpec and StraightSpec are Spec with history         *)
(* variables.  HostSpec is the host of src/src/main.cpp (SDL_AppEvent and  *)
(* SDL_AppIterate) driving the Board, and StartSpec is HostSpec with the   *)
(* history of the keys that start a session.  SpawnSpec runs the loop of   *)
(* Board::spawn_new_food one draw per step, CallSpawnSpec runs it from     *)
(* each of its callers, and CtorSpec applies Board::Board with its         *)
(* default start position.                                                 *)
(***************************************************************************)
EXTENDS Integers, Sequences, FiniteSets, TLC

\* ------------------------------------------------------------------ bounds
\* Largest grid edge explored (game::Board accepts any unsigned grid_size).
MaxGrid == 3
\* Longest snake body explored: an eating update() is taken only below it.
MaxLen == 4
\* Width of `unsigned int` in the model.  The build has 32 bits; the model
\* keeps the modular arithmetic with a narrower word, always wider than the
\* grid and than default_grid_size (grid_size < 2^UIntBits).
UIntBits == 5

\* Largest grid edge on which the loop of spawn_new_food is run draw by draw.
SpawnMaxGrid == 2

\* Longest snake body with which straight runs are counted.
StraightMaxLen == 3

\* Largest grid edge and longest snake body the host is run with.
HostMaxGrid == 2
HostMaxLen == 2

UIntRange == 2 ^ UIntBits

\* constexpr unsigned int default_grid_size = 20;
default_grid_size == 20

\* --------------------------------------------------------------- Direction
\* enum Direction { north = 0, east, south, west };
north == 0
east == 1
south == 2
west == 3
Direction == {north, east, south, west}

\* Snake::direction has no initialiser: after Snake::Snake it holds an
\* indeterminate value, one of the enumerators or a value that is none of
\* them (4 stands for those: every such value takes the same path through
\* the code).
IndeterminateDirection == Direction \cup {4}

VARIABLES
  grid_size,          \* Board::grid_size
  init_snake_coords,  \* Board::init_snake_coords
  food_loc,           \* Board::food_loc
  head,               \* Snake::head
  body,               \* Snake::body, oldest segment first, head last
  direction,          \* Snake::direction
  call,               \* the public operation that produced this state
  game_state,         \* game_ctx_t::game_state of the host
  event,              \* the host callback that produced this state
  session,            \* history: what update() returned since the last reset
  eaten,              \* history: eating update() calls since the last reset
  straight,           \* history: update() calls that returned true since
                      \* the last update_snake_dir or reset
  start,              \* history: the movement keys since the host left
                      \* title or game_over, up to the first update()
  spawn_pc            \* position in the loop of Board::spawn_new_food

\* The Board with its Snake, and the record of the last call.
board == <<grid_size, init_snake_coords, food_loc, head, body, direction, call>>
\* The history variables.
hist == <<session, eaten, straight, start>>
\* The host's variables.
host == <<game_state, event>>

vars == <<board, host, hist, spawn_pc>>

\* start when no session is waiting for its first update().
NoStart == [key |-> "none", last |-> "none", updated |-> FALSE]

\* struct grid_coords_t { unsigned int x, y; }
grid_coords_t(x, y) == [x |-> x, y |-> y]

\* The cells of a grid of edge n.
Cells(n) == {grid_coords_t(x, y) : x \in 0 .. n - 1, y \in 0 .. n - 1}

abs(v) == IF v < 0 THEN -v ELSE v

\* ------------------------------------------------------------------- Snake
\* Snake::get_size
get_size == Len(body)

\* Mutant of get_next_head_location: the step south is two cells long.
get_next_head_location_leap ==
  CASE direction = north -> grid_coords_t(head.x, (head.y - 1) % UIntRange)
    [] direction = east  -> grid_coords_t((head.x + 1) % UIntRange, head.y)
    [] direction = south -> grid_coords_t(head.x, (head.y + 2) % UIntRange)
    [] direction = west  -> grid_coords_t((head.x - 1) % UIntRange, head.y)
    [] OTHER             -> head

\* Mutant of get_next_head_location: the step east also moves one row down.
get_next_head_location_diagonal ==
  CASE direction = north -> grid_coords_t(head.x, (head.y - 1) % UIntRange)
    [] direction = east  ->
         grid_coords_t((head.x + 1) % UIntRange, (head.y + 1) % UIntRange)
    [] direction = south -> grid_coords_t(head.x, (head.y + 1) % UIntRange)
    [] direction = west  -> grid_coords_t((head.x - 1) % UIntRange, head.y)
    [] OTHER             -> head

\* Mutant of get_next_head_location: signed coordinates, so a decrement at
\* 0 gives -1 instead of wrapping.
get_next_head_location_signed ==
  CASE direction = north -> grid_coords_t(head.x, head.y - 1)
    [] direction = east  -> grid_coords_t(head.x + 1, head.y)
    [] direction = south -> grid_coords_t(head.x, head.y + 1)
    [] direction = west  -> grid_coords_t(head.x - 1, head.y)
    [] OTHER             -> head

\* Snake::get_next_head_location: head moved one cell in `direction`, in
\* unsigned arithmetic; a direction that is no enumerator matches no case.
get_next_head_location ==
  CASE direction = north -> grid_coords_t(head.x, (head.y - 1) % UIntRange)
    [] direction = east  -> grid_coords_t((head.x + 1) % UIntRange, head.y)
    [] direction = south -> grid_coords_t(head.x, (head.y + 1) % UIntRange)
    [] direction = west  -> grid_coords_t((head.x - 1) % UIntRange, head.y)
    [] OTHER             -> head

\* Mutant of has_snake: the search starts at the second segment and misses
\* the oldest one.
has_snake_skip_oldest(snake_body, here) ==
  \E i \in 2 .. Len(snake_body) : here = snake_body[i]

\* Snake::has_snake: linear search of the body for `here`.
has_snake(snake_body, here) ==
  \E i \in 1 .. Len(snake_body) : here = snake_body[i]

\* Mutant of ShiftBody: the loop is missing and no slot moves.
ShiftBody_none(b) == b

\* The loop of Snake::move: body[i - 1] = body[i] for i = 1 .. size - 1.
\* Every slot but the last takes its successor's value.
ShiftBody(b) == [i \in 1 .. Len(b) |-> IF i < Len(b) THEN b[i + 1] ELSE b[i]]

\* Mutant of MoveBody: the new head is pushed on every move, eaten or not.
MoveBody_always_push(b, h, has_eaten_food) == Append(ShiftBody(b), h)

\* Mutant of MoveBody: without food the back of the body is not overwritten
\* with the new head.
MoveBody_no_back(b, h, has_eaten_food) ==
  IF has_eaten_food
    THEN Append(ShiftBody(b), h)
    ELSE ShiftBody(b)

\* Snake::move: the body after the move to the new head h.  The loop runs
\* whether or not food was eaten; then h is pushed or overwrites the back.
MoveBody(b, h, has_eaten_food) ==
  IF has_eaten_food
    THEN Append(ShiftBody(b), h)
    ELSE [ShiftBody(b) EXCEPT ![Len(b)] = h]

\* ------------------------------------------------------------------- Board
\* Mutant of will_collide: the wall test is missing.
will_collide_no_wall(snake_body, next_loc) == has_snake(snake_body, next_loc)

\* Board::will_collide, against the snake whose body is snake_body.
will_collide(snake_body, next_loc) ==
  \/ next_loc.x >= grid_size
  \/ next_loc.y >= grid_size
  \/ has_snake(snake_body, next_loc)

\* Board::spawn_new_food: the cells the do-while loop can leave in food_loc,
\* drawn from [0, grid_size - 1]^2 and tested against the snake as it is
\* when the loop runs.  With no such cell the loop does not end.
spawn_new_food(snake_body) ==
  {c \in Cells(grid_size) : ~will_collide(snake_body, c)}

\* The centre cell as default_snake_pos computes it, (n / 2) - 1 on both
\* axes, for a grid of edge n.
CentreCell(n) ==
  grid_coords_t(((n \div 2) - 1) % UIntRange, ((n \div 2) - 1) % UIntRange)

\* The start positions explored for a grid of edge n: the centre cell and
\* the far corner.
StartCells(n) == {CentreCell(n), grid_coords_t(n - 1, n - 1)}

\* Board::Board (with Snake::Snake): one segment at the start position,
\* direction not initialised, food spawned.
Init ==
  /\ grid_size \in 2 .. MaxGrid
  /\ init_snake_coords \in StartCells(grid_size)
  /\ head = init_snake_coords
  /\ body = <<init_snake_coords>>
  /\ direction \in IndeterminateDirection
  /\ food_loc \in spawn_new_food(<<init_snake_coords>>)
  /\ call = [op |-> "Board"]
  /\ game_state = "title"
  /\ event = [h |-> "SDL_AppInit"]
  /\ session = "active"
  /\ eaten = 0
  /\ straight = 0
  /\ start = NoStart
  /\ spawn_pc = "done"

\* Mutant of update_snake_dir: an accepted request also spawns new food.
update_snake_dir_respawns(new_direction) ==
  /\ IF get_size > 1 /\ (abs(new_direction - direction) % 3) > 1
       THEN direction' = direction /\ food_loc' = food_loc
       ELSE direction' = new_direction /\ food_loc' \in spawn_new_food(body)
  /\ call' = [op |-> "update_snake_dir", dir |-> new_direction,
              rev |-> abs(new_direction - direction) = 2]
  /\ UNCHANGED <<grid_size, init_snake_coords, head, body>>

\* Mutant of update_snake_dir: the difference is taken modulo 4, which also
\* rejects the turn between north and west.
update_snake_dir_mod4(new_direction) ==
  /\ IF get_size > 1 /\ (abs(new_direction - direction) % 4) > 1
       THEN direction' = direction
       ELSE direction' = new_direction
  /\ call' = [op |-> "update_snake_dir", dir |-> new_direction,
              rev |-> abs(new_direction - direction) = 2]
  /\ UNCHANGED <<grid_size, init_snake_coords, food_loc, head, body>>

\* Mutant of update_snake_dir: the size test is missing, so a one-segment
\* snake is refused the reverse heading too.
update_snake_dir_any_size(new_direction) ==
  /\ IF (abs(new_direction - direction) % 3) > 1
       THEN direction' = direction
       ELSE direction' = new_direction
  /\ call' = [op |-> "update_snake_dir", dir |-> new_direction,
              rev |-> abs(new_direction - direction) = 2]
  /\ UNCHANGED <<grid_size, init_snake_coords, food_loc, head, body>>

\* Board::update_snake_dir (snake.cpp): with more than one segment a
\* request at distance 2 from the current direction returns early.
update_snake_dir(new_direction) ==
  /\ IF get_size > 1 /\ (abs(new_direction - direction) % 3) > 1
       THEN direction' = direction
       ELSE direction' = new_direction
  /\ call' = [op |-> "update_snake_dir", dir |-> new_direction,
              rev |-> abs(new_direction - direction) = 2]
  /\ UNCHANGED <<grid_size, init_snake_coords, food_loc, head, body>>

\* Mutant of UpdateCollide: the shift loop of the move has run before the
\* collision is reported, so the oldest segment is gone.
UpdateCollide_shifts ==
  /\ will_collide(body, get_next_head_location)
  /\ body' = ShiftBody(body)
  /\ call' = [op |-> "update", ret |-> FALSE, ate |-> FALSE]
  /\ UNCHANGED <<grid_size, init_snake_coords, food_loc, head, direction>>

\* Mutant of UpdateCollide: the snake is moved before the collision is
\* reported.
UpdateCollide_moves ==
  /\ will_collide(body, get_next_head_location)
  /\ head' = get_next_head_location
  /\ body' = MoveBody(body, get_next_head_location, FALSE)
  /\ call' = [op |-> "update", ret |-> FALSE, ate |-> FALSE]
  /\ UNCHANGED <<grid_size, init_snake_coords, food_loc, direction>>

\* Board::update, the branch that returns false
UpdateCollide ==
  /\ will_collide(body, get_next_head_location)
  /\ call' = [op |-> "update", ret |-> FALSE, ate |-> FALSE]
  /\ UNCHANGED <<grid_size, init_snake_coords, food_loc, head, body, direction>>

\* Mutant of UpdateMove: every successful update() spawns new food.
UpdateMove_respawns ==
  /\ ~will_collide(body, get_next_head_location)
  /\ get_next_head_location # food_loc
  /\ food_loc' \in spawn_new_food(body)
  /\ head' = get_next_head_location
  /\ body' = MoveBody(body, get_next_head_location, FALSE)
  /\ call' = [op |-> "update", ret |-> TRUE, ate |-> FALSE]
  /\ UNCHANGED <<grid_size, init_snake_coords, direction>>

\* Board::update, no collision and the next head is not the food
UpdateMove ==
  /\ ~will_collide(body, get_next_head_location)
  /\ get_next_head_location # food_loc
  /\ head' = get_next_head_location
  /\ body' = MoveBody(body, get_next_head_location, FALSE)
  /\ call' = [op |-> "update", ret |-> TRUE, ate |-> FALSE]
  /\ UNCHANGED <<grid_size, init_snake_coords, food_loc, direction>>

\* Board::update, no collision and the next head is the food: the food is
\* respawned first, against the body before the move, then the snake moves.
UpdateEat ==
  /\ Len(body) < MaxLen
  /\ ~will_collide(body, get_next_head_location)
  /\ get_next_head_location = food_loc
  /\ food_loc' \in spawn_new_food(body)
  /\ head' = get_next_head_location
  /\ body' = MoveBody(body, get_next_head_location, TRUE)
  /\ call' = [op |-> "update", ret |-> TRUE, ate |-> TRUE]
  /\ UNCHANGED <<grid_size, init_snake_coords, direction>>

\* Mutant of reset: the start position is overwritten with the place the
\* head was at.
reset_moves_start ==
  /\ init_snake_coords' = head
  /\ head' = init_snake_coords'
  /\ body' = <<init_snake_coords'>>
  /\ direction' \in IndeterminateDirection
  /\ food_loc' \in spawn_new_food(body')
  /\ call' = [op |-> "reset", ret |-> TRUE]
  /\ UNCHANGED grid_size

\* Mutant of reset: the food is spawned before the snake is replaced, so it
\* is tested against the old body.
reset_spawn_first ==
  /\ head' = init_snake_coords
  /\ body' = <<init_snake_coords>>
  /\ direction' \in IndeterminateDirection
  /\ food_loc' \in spawn_new_food(body)
  /\ call' = [op |-> "reset", ret |-> TRUE]
  /\ UNCHANGED <<grid_size, init_snake_coords>>

\* Board::reset: a fresh Snake at init_snake_coords, then new food.
reset ==
  /\ head' = init_snake_coords
  /\ body' = <<init_snake_coords>>
  /\ direction' \in IndeterminateDirection
  /\ food_loc' \in spawn_new_food(<<init_snake_coords>>)
  /\ call' = [op |-> "reset", ret |-> TRUE]
  /\ UNCHANGED <<grid_size, init_snake_coords>>

SetDirection == \E d \in Direction : update_snake_dir(d)

\* Any call of a public operation of the Board; the host, the history and
\* the spawn loop are left out of Spec.
Next ==
  \/ SetDirection /\ UNCHANGED <<host, hist, spawn_pc>>
  \/ UpdateCollide /\ UNCHANGED <<host, hist, spawn_pc>>
  \/ UpdateMove /\ UNCHANGED <<host, hist, spawn_pc>>
  \/ UpdateEat /\ UNCHANGED <<host, hist, spawn_pc>>
  \/ reset /\ UNCHANGED <<host, hist, spawn_pc>>

Spec == Init /\ [][Next]_vars

\* ------------------------------------------------------------ SessionSpec
\* draw_score_board: the score shown is get_size() - 1.
score == get_size - 1

\* Spec with its history.  session is "active" from construction or reset()
\* until update() returns false, then "over" while the heading is the one
\* that update() failed with, "turned" once update_snake_dir has changed it,
\* and "active" again when update() returns true.  eaten counts the
\* update() calls that ate since construction or reset().
SessionNext ==
  \/ /\ SetDirection
     /\ session' = IF session = "active" THEN "active"
                   ELSE IF direction' = direction THEN session
                   ELSE "turned"
     /\ UNCHANGED <<eaten, straight, start, host, spawn_pc>>
  \/ /\ UpdateCollide
     /\ session' = "over"
     /\ UNCHANGED <<eaten, straight, start, host, spawn_pc>>
  \/ /\ UpdateMove
     /\ session' = "active"
     /\ UNCHANGED <<eaten, straight, start, host, spawn_pc>>
  \/ /\ UpdateEat
     /\ session' = "active"
     /\ eaten' = eaten + 1
     /\ UNCHANGED <<straight, start, host, spawn_pc>>
  \/ /\ reset
     /\ session' = "active"
     /\ eaten' = 0
     /\ UNCHANGED <<straight, start, host, spawn_pc>>

\* The sessions explored start at the centre cell.
SessionInit == Init /\ init_snake_coords = CentreCell(grid_size)

SessionSpec == SessionInit /\ [][SessionNext]_vars

\* ----------------------------------------------------------- StraightSpec
\* Spec with the history variable straight: the number of update() calls
\* that returned true since the last update_snake_dir, reset() or
\* construction.
StraightNext ==
  \/ /\ SetDirection
     /\ straight' = 0
     /\ UNCHANGED <<session, eaten, start, host, spawn_pc>>
  \/ UpdateCollide /\ UNCHANGED <<hist, host, spawn_pc>>
  \/ /\ UpdateMove \/ (UpdateEat /\ Len(body) < StraightMaxLen)
     /\ straight' = straight + 1
     /\ UNCHANGED <<session, eaten, start, host, spawn_pc>>
  \/ /\ reset
     /\ straight' = 0
     /\ UNCHANGED <<session, eaten, start, host, spawn_pc>>

\* The runs explored start at the centre cell.
StraightInit == Init /\ init_snake_coords = CentreCell(grid_size)

StraightSpec == StraightInit /\ [][StraightNext]_vars

\* --------------------------------------------------------------- HostSpec
\* The host of src/src/main.cpp.  SDL runs SDL_AppEvent and SDL_AppIterate
\* one after the other on the main thread, so each call is one step.
\* game_state is game_ctx->game_state (title, play, paused, game_over);
\* event records the callback that ran last: the key of a key-down event
\* and the state the host was in when it arrived, or for a frame what
\* update() returned ("none" when it was not called).
MoveKeys == {"W", "A", "S", "D"}

\* Mutant of ScanDir: D asks for west, as A does.
ScanDir_d_west(k) ==
  CASE k = "W" -> north
    [] k = "A" -> west
    [] k = "S" -> south
    [] k = "D" -> west

\* The direction each movement key asks for.
ScanDir(k) ==
  CASE k = "W" -> north
    [] k = "A" -> west
    [] k = "S" -> south
    [] k = "D" -> east

\* Mutant of KeyMove: from title and game_over the key only starts play,
\* without asking the Board for its direction.
KeyMove_starts_only ==
  \E k \in MoveKeys :
    /\ IF game_state \in {"title", "game_over"}
         THEN UNCHANGED board
         ELSE update_snake_dir(ScanDir(k))
    /\ game_state' = "play"
    /\ event' = [h |-> "SDL_AppEvent", key |-> k, from |-> game_state]

\* SDL_AppEvent, key down on W, A, S or D: in every state the host is in
\* play afterwards and the Board is asked for the key's direction.
KeyMove ==
  \E k \in MoveKeys :
    /\ update_snake_dir(ScanDir(k))
    /\ game_state' = "play"
    /\ event' = [h |-> "SDL_AppEvent", key |-> k, from |-> game_state]

\* Mutant of KeyP: P starts play from title and game_over too.
KeyP_starts_play ==
  /\ game_state' = IF game_state = "play" THEN "paused" ELSE "play"
  /\ event' = [h |-> "SDL_AppEvent", key |-> "P", from |-> game_state]
  /\ UNCHANGED board

\* SDL_AppEvent, key down on P: play and paused swap; title and game_over
\* have no case for it.
KeyP ==
  /\ game_state' = CASE game_state = "play" -> "paused"
                     [] game_state = "paused" -> "play"
                     [] OTHER -> game_state
  /\ event' = [h |-> "SDL_AppEvent", key |-> "P", from |-> game_state]
  /\ UNCHANGED board

\* SDL_AppEvent, key down on R in play or paused: reset() and the title.
KeyR ==
  /\ game_state \in {"play", "paused"}
  /\ reset
  /\ game_state' = "title"
  /\ event' = [h |-> "SDL_AppEvent", key |-> "R", from |-> game_state]

\* SDL_AppEvent, key down with no case in the current state: R in title or
\* game_over, and any other key ("X") in every state.
KeyIgnored ==
  \E k \in {"R", "X"} :
    /\ k = "R" => game_state \in {"title", "game_over"}
    /\ event' = [h |-> "SDL_AppEvent", key |-> k, from |-> game_state]
    /\ UNCHANGED <<board, game_state>>

\* Mutant of IterateFail: the host leaves play without calling reset().
IterateFail_no_reset ==
  /\ game_state = "play"
  /\ UpdateCollide
  /\ game_state' = "game_over"
  /\ event' = [h |-> "SDL_AppIterate", update |-> "false"]

\* SDL_AppIterate in play, update() returns false: update() has changed
\* nothing, then reset() runs and the host goes to game_over.
IterateFail ==
  /\ game_state = "play"
  /\ will_collide(body, get_next_head_location)
  /\ reset
  /\ game_state' = "game_over"
  /\ event' = [h |-> "SDL_AppIterate", update |-> "false"]

\* Mutant of IterateStep: update() is called whatever the host state.
IterateStep_any_state ==
  /\ UpdateMove \/ (UpdateEat /\ Len(body) < HostMaxLen)
  /\ event' = [h |-> "SDL_AppIterate", update |-> "true"]
  /\ UNCHANGED game_state

\* SDL_AppIterate in play, update() returns true.
IterateStep ==
  /\ game_state = "play"
  /\ UpdateMove \/ (UpdateEat /\ Len(body) < HostMaxLen)
  /\ event' = [h |-> "SDL_AppIterate", update |-> "true"]
  /\ UNCHANGED game_state

\* SDL_AppIterate in title, game_over or paused: only drawing.
IterateIdle ==
  /\ game_state \in {"title", "game_over", "paused"}
  /\ event' = [h |-> "SDL_AppIterate", update |-> "none"]
  /\ UNCHANGED <<board, game_state>>

\* Any callback of the host; the history and the spawn loop are left out
\* of HostSpec.
HostNext ==
  \/ KeyMove /\ UNCHANGED <<hist, spawn_pc>>
  \/ KeyP /\ UNCHANGED <<hist, spawn_pc>>
  \/ KeyR /\ UNCHANGED <<hist, spawn_pc>>
  \/ KeyIgnored /\ UNCHANGED <<hist, spawn_pc>>
  \/ IterateFail /\ UNCHANGED <<hist, spawn_pc>>
  \/ IterateStep /\ UNCHANGED <<hist, spawn_pc>>
  \/ IterateIdle /\ UNCHANGED <<hist, spawn_pc>>

\* SDL_AppInit: main.cpp builds the Board with its default start position
\* and starts in the title state.
HostInit ==
  /\ Init
  /\ grid_size <= HostMaxGrid
  /\ init_snake_coords = CentreCell(grid_size)

HostSpec == HostInit /\ [][HostNext]_vars

\* --------------------------------------------------------------- CtorSpec
\* const grid_coords_t default_snake_pos: a namespace constant, computed
\* once from default_grid_size.
default_snake_pos == CentreCell(default_grid_size)

\* The grid sizes a caller passes to Board::Board.
CtorGrids == (1 .. MaxGrid) \cup {default_grid_size}

\* Before the constructor runs: grid_size holds the argument of the call
\* about to be made, the other fields are not yet constructed.
CtorInit ==
  /\ grid_size \in CtorGrids
  /\ init_snake_coords = grid_coords_t(0, 0)
  /\ head = grid_coords_t(0, 0)
  /\ body = <<>>
  /\ direction = north
  /\ food_loc = grid_coords_t(0, 0)
  /\ call = [op |-> "main"]
  /\ game_state = "title"
  /\ event = [h |-> "SDL_AppInit"]
  /\ session = "active"
  /\ eaten = 0
  /\ straight = 0
  /\ start = NoStart
  /\ spawn_pc = "done"

\* Board::Board(grid_size) with the second argument defaulted: the start
\* position is default_snake_pos whatever grid_size is.
DefaultBoard ==
  /\ call.op = "main"
  /\ init_snake_coords' = default_snake_pos
  /\ head' = init_snake_coords'
  /\ body' = <<init_snake_coords'>>
  /\ direction' \in IndeterminateDirection
  /\ food_loc' \in spawn_new_food(body')
  /\ call' = [op |-> "Board"]
  /\ UNCHANGED <<grid_size, host, hist, spawn_pc>>

CtorNext == DefaultBoard

CtorSpec == CtorInit /\ [][CtorNext]_vars

\* -------------------------------------------------------------- StartSpec
\* HostSpec with the history variable start.  From the key that takes the
\* host from title or game_over into play, start.key is that key and
\* start.last the latest movement key; the first frame that calls update()
\* sets start.updated, and the callback after it, like reset(), clears start.

\* start without a first update() that is already over.
StartPending == IF start.updated THEN NoStart ELSE start

StartNext ==
  \/ /\ KeyMove
     /\ start' =
          IF game_state \in {"title", "game_over"}
            THEN [key |-> event'.key, last |-> event'.key, updated |-> FALSE]
            ELSE IF StartPending.key = "none"
                   THEN NoStart
                   ELSE [StartPending EXCEPT !.last = event'.key]
     /\ UNCHANGED <<session, eaten, straight, spawn_pc>>
  \/ /\ KeyP
     /\ start' = StartPending
     /\ UNCHANGED <<session, eaten, straight, spawn_pc>>
  \/ /\ KeyR
     /\ start' = NoStart
     /\ UNCHANGED <<session, eaten, straight, spawn_pc>>
  \/ /\ KeyIgnored
     /\ start' = StartPending
     /\ UNCHANGED <<session, eaten, straight, spawn_pc>>
  \/ /\ IterateFail
     /\ start' = IF StartPending.key = "none"
                   THEN NoStart
                   ELSE [StartPending EXCEPT !.updated = TRUE]
     /\ UNCHANGED <<session, eaten, straight, spawn_pc>>
  \/ /\ IterateStep
     /\ start' = IF StartPending.key = "none"
                   THEN NoStart
                   ELSE [StartPending EXCEPT !.updated = TRUE]
     /\ UNCHANGED <<session, eaten, straight, spawn_pc>>
  \/ /\ IterateIdle
     /\ start' = StartPending
     /\ UNCHANGED <<session, eaten, straight, spawn_pc>>

StartSpec == HostInit /\ [][StartNext]_vars

\* -------------------------------------------------------------- SpawnSpec
\* The snake bodies a call of spawn_new_food is run against: every body of
\* up to MaxLen segments in which each segment is its predecessor's cell or
\* a cell next to it.  On the smallest grids they include bodies that cover
\* the whole grid.
RECURSIVE SpawnBodies(_, _)
SpawnBodies(n, len) ==
  IF len = 1
    THEN {<<c>> : c \in Cells(n)}
    ELSE LET shorter == SpawnBodies(n, len - 1)
             near(p) == {q \in Cells(n) :
                           abs(q.x - p.x) + abs(q.y - p.y) <= 1}
         IN  shorter \cup
             UNION { {Append(b, c) : c \in near(b[Len(b)])} :
                       b \in {p \in shorter : Len(p) = len - 1} }

\* Entry of Board::spawn_new_food: a board of edge 1 .. SpawnMaxGrid, a
\* snake, and in food_loc the (0, 0) that grid_coords_t's constructor puts
\* there (the loop overwrites food_loc before it reads it).
SpawnInit ==
  /\ grid_size \in 1 .. SpawnMaxGrid
  /\ body \in SpawnBodies(grid_size, MaxLen)
  /\ head = body[Len(body)]
  /\ init_snake_coords = body[1]
  /\ direction = north
  /\ food_loc = grid_coords_t(0, 0)
  /\ call = [op |-> "spawn_new_food"]
  /\ game_state = "title"
  /\ event = [h |-> "SDL_AppInit"]
  /\ session = "active"
  /\ eaten = 0
  /\ straight = 0
  /\ start = NoStart
  /\ spawn_pc = "loop"

\* Mutant of Draw: the loop condition is inverted, so the loop ends on a
\* cell that collides.
Draw_inverted(c) ==
  /\ spawn_pc = "loop"
  /\ c \in Cells(grid_size)
  /\ food_loc' = c
  /\ spawn_pc' = IF will_collide(body, c) THEN "done" ELSE "loop"
  /\ UNCHANGED <<grid_size, init_snake_coords, head, body, direction, call,
                 host, hist>>

\* One iteration of the do-while loop of Board::spawn_new_food: both
\* coordinates are drawn from [0, grid_size - 1] and the loop goes on while
\* the cell drawn collides.
Draw(c) ==
  /\ spawn_pc = "loop"
  /\ c \in Cells(grid_size)
  /\ food_loc' = c
  /\ spawn_pc' = IF will_collide(body, c) THEN "loop" ELSE "done"
  /\ UNCHANGED <<grid_size, init_snake_coords, head, body, direction, call,
                 host, hist>>

\* A draw of any cell, and a draw of a cell that does not collide.
DrawCell == \E c \in Cells(grid_size) : Draw(c)
DrawFree == \E c \in spawn_new_food(body) : Draw(c)

SpawnNext == DrawCell

\* The draws are uniform and independent: a loop that keeps drawing
\* does draw a cell that does not collide, when there is one.
SpawnSpec == SpawnInit /\ [][SpawnNext]_vars /\ WF_vars(DrawFree)

\* ---------------------------------------------------------- CallSpawnSpec
\* spawn_new_food run draw by draw from each place that calls it, up to
\* the caller's return.  call names the caller.

\* Mutant of UpdateSpawnEntry: update() has moved the snake onto the food
\* before it calls spawn_new_food.
UpdateSpawnEntry_after_move ==
  /\ body \in SpawnBodies(grid_size, MaxLen)
  /\ head = body[Len(body)]
  /\ init_snake_coords = body[1]
  /\ direction \in Direction
  /\ food_loc = head
  /\ call = [op |-> "update", ret |-> TRUE, ate |-> TRUE]

\* Board::update at its call of spawn_new_food: the next head did not
\* collide with the body as it is and is the food cell.
UpdateSpawnEntry ==
  /\ body \in SpawnBodies(grid_size, MaxLen)
  /\ head = body[Len(body)]
  /\ init_snake_coords = body[1]
  /\ direction \in Direction
  /\ food_loc = get_next_head_location
  /\ ~will_collide(body, get_next_head_location)
  /\ call = [op |-> "update", ret |-> TRUE, ate |-> TRUE]

\* Board::Board and Board::reset at their call of spawn_new_food: a snake
\* of one segment at the start position, a cell of the grid or the default.
StartSpawnEntry ==
  /\ init_snake_coords \in Cells(grid_size) \cup {default_snake_pos}
  /\ body = <<init_snake_coords>>
  /\ head = init_snake_coords
  /\ direction \in IndeterminateDirection
  /\ \/ call = [op |-> "Board"] /\ food_loc = grid_coords_t(0, 0)
     \/ call = [op |-> "reset", ret |-> TRUE] /\ food_loc \in Cells(grid_size)

CallSpawnInit ==
  /\ grid_size \in 1 .. SpawnMaxGrid
  /\ UpdateSpawnEntry \/ StartSpawnEntry
  /\ game_state = "title"
  /\ event = [h |-> "SDL_AppInit"]
  /\ session = "active"
  /\ eaten = 0
  /\ straight = 0
  /\ start = NoStart
  /\ spawn_pc = "loop"

\* The caller goes on after the loop: update() moves the snake with
\* has_eaten_food set and returns true, the constructor and reset() return.
SpawnReturn ==
  /\ spawn_pc = "done"
  /\ spawn_pc' = "returned"
  /\ IF call.op = "update"
       THEN /\ head' = get_next_head_location
            /\ body' = MoveBody(body, get_next_head_location, TRUE)
       ELSE UNCHANGED <<head, body>>
  /\ UNCHANGED <<grid_size, init_snake_coords, food_loc, direction, call,
                 host, hist>>

CallSpawnNext ==
  \/ DrawCell
  \/ SpawnReturn

CallSpawnSpec ==
  CallSpawnInit /\ [][CallSpawnNext]_vars
    /\ WF_vars(DrawFree) /\ WF_vars(SpawnReturn)

\* ================================================================= claims
\* Vocabulary of the claims, stated without the operators of the model.
InGrid(c) == 0 <= c.x /\ c.x < grid_size /\ 0 <= c.y /\ c.y < grid_size

\* c moved one cell in heading d, in plain integers.
OneCell(c, d) ==
  CASE d = north -> grid_coords_t(c.x, c.y - 1)
    [] d = east  -> grid_coords_t(c.x + 1, c.y)
    [] d = south -> grid_coords_t(c.x, c.y + 1)
    [] d = west  -> grid_coords_t(c.x - 1, c.y)

Opposite(a, b) == {a, b} = {north, south} \/ {a, b} = {east, west}

OnBody(c) == \E i \in 1 .. Len(body) : body[i] = c

NoDuplicates(b) == \A i, j \in 1 .. Len(b) : i # j => b[i] # b[j]

\* C1: in every reachable state the food cell is not a cell of the snake
\* body; in particular the food chosen by an eating update() is not on the
\* body after the move.
C1_FoodNotOnSnake == ~OnBody(food_loc)

\* C2: in every reachable state every body cell and the food cell lie in
\* [0, grid_size) x [0, grid_size).
C2_Bounds ==
  /\ \A i \in 1 .. Len(body) : InGrid(body[i])
  /\ InGrid(food_loc)

\* C2 witness: the snake, two segments or more, has just failed to step off
\* the west edge, where the decremented coordinate wraps.
C2_Witness ==
  /\ call.op = "update" /\ ~call.ret
  /\ Len(body) >= 2
  /\ direction = west /\ head.x = 0

\* C3: a snake of two segments or more only turns by 90 degrees: whatever
\* update_snake_dir calls were made since the last move, the prospective
\* next head is never the segment directly behind the head.
C3_NoReversal ==
  Len(body) >= 2 => get_next_head_location # body[Len(body) - 1]

\* C4: in every reachable state the body holds no coordinate twice.
C4_NoDuplicates == NoDuplicates(body)

\* C5: an eating update() (move with has_eaten_food) leaves the old body in
\* place and appends the new head, for every body length.
C5_GrowAppends ==
  [][(call'.op = "update" /\ call'.ate)
       => body' = Append(body, OneCell(head, direction))]_vars

\* C6: an update() whose prospective next head is the food cell makes the
\* body one longer and puts the head on that food cell.
C6_EatGrows ==
  [][(call'.op = "update" /\ get_next_head_location = food_loc)
       => (Len(body') = Len(body) + 1 /\ head' = food_loc)]_vars

\* C7: a successful update() that eats nothing keeps the length and slides
\* the body: slot i takes the old slot i + 1 and the last slot is the old
\* head moved one cell in the heading.
C7_Slide ==
  [][(call'.op = "update" /\ call'.ret /\ ~call'.ate)
       => /\ Len(body') = Len(body)
          /\ \A i \in 1 .. Len(body) - 1 : body'[i] = body[i + 1]
          /\ body'[Len(body)] = OneCell(head, direction)]_vars

\* C7 witness: a snake of three segments has just slid.
C7_Witness ==
  /\ call.op = "update" /\ call.ret /\ ~call.ate
  /\ Len(body) >= 3
  /\ NoDuplicates(body)

\* C8: with more than one segment, update_snake_dir leaves the heading as
\* it was exactly when the request is the opposite of the heading, and sets
\* it to the request for every 90-degree turn and every same-heading request.
C8_ReversalRule ==
  [][(call'.op = "update_snake_dir" /\ Len(body) > 1)
       => direction' = IF Opposite(call'.dir, direction)
                         THEN direction
                         ELSE call'.dir]_vars

\* C8 witness: a snake of two segments or more heading north has been
\* asked to head south and still heads north.
C8_Witness ==
  /\ call.op = "update_snake_dir"
  /\ Len(body) > 1
  /\ call.rev /\ call.dir = south /\ direction = north

\* C9: with one segment, update_snake_dir sets the heading to the request,
\* the reverse of the current heading included.
C9_SingleSegment ==
  [][(call'.op = "update_snake_dir" /\ Len(body) = 1)
       => direction' = call'.dir]_vars

\* C9 witness: a one-segment snake heading east has been turned west.
C9_Witness ==
  /\ call.op = "update_snake_dir"
  /\ Len(body) = 1
  /\ call.rev /\ call.dir = west /\ direction = west

\* C10: update() returns false exactly when the prospective next head is
\* outside the grid or is a segment of the body before the move, the oldest
\* segment included.
C10_UpdateFalseIff ==
  [][call'.op = "update"
       => (call'.ret = FALSE
             <=> (~InGrid(get_next_head_location)
                    \/ OnBody(get_next_head_location)))]_vars

\* C10 witness: update() has returned false on a body of distinct cells
\* whose next head is its oldest segment.
C10_Witness ==
  /\ call.op = "update" /\ ~call.ret
  /\ Len(body) >= 4
  /\ NoDuplicates(body)
  /\ get_next_head_location = body[1]

\* C11: an update() that returns false changes nothing of the board: body,
\* head, heading and food are as before the call.
C11_FailedUpdateNoChange ==
  [][(call'.op = "update" /\ ~call'.ret)
       => /\ body' = body
          /\ head' = head
          /\ direction' = direction
          /\ food_loc' = food_loc]_vars

\* C11 witness: update() has returned false for a snake of two segments or
\* more at the east wall, heading east.
C11_Witness ==
  /\ call.op = "update" /\ ~call.ret
  /\ Len(body) >= 2
  /\ direction = east /\ head.x = grid_size - 1

\* C12: a step north from y = 0 or west from x = 0 wraps the coordinate to
\* a value of grid_size or more, and update() returns false at the north and
\* west edges as it does at the south and east edges.
C12_EdgesCollide ==
  [][call'.op = "update"
       => /\ (direction = north /\ head.y = 0)
               => (get_next_head_location.y >= grid_size /\ ~call'.ret)
          /\ (direction = west /\ head.x = 0)
               => (get_next_head_location.x >= grid_size /\ ~call'.ret)
          /\ (direction = south /\ head.y = grid_size - 1) => ~call'.ret
          /\ (direction = east /\ head.x = grid_size - 1) => ~call'.ret]_vars

\* C12 witness: update() has returned false for a snake of two segments or
\* more on the top row, heading north.
C12_Witness ==
  /\ call.op = "update" /\ ~call.ret
  /\ Len(body) >= 2
  /\ direction = north /\ head.y = 0

\* C13: after reset() the snake is the single segment init_snake_coords,
\* reset() has returned true and the food is in the grid and not on the
\* snake.
C13_ResetRestores ==
  call.op = "reset"
    => /\ body = <<init_snake_coords>>
       /\ head = init_snake_coords
       /\ call.ret
       /\ InGrid(food_loc)
       /\ food_loc # init_snake_coords

\* C13 witness: reset() has returned and the food is next to the start cell.
C13_Witness ==
  /\ call.op = "reset"
  /\ Len(body) = 1
  /\ abs(food_loc.x - head.x) + abs(food_loc.y - head.y) = 1

\* C17: in every reachable state the body has a segment and the head field
\* is the last element of the body.
C17_HeadIsBack == Len(body) >= 1 /\ head = body[Len(body)]

\* C17 witness: an eating update() has made a body of three segments or more.
C17_Witness ==
  /\ call.op = "update" /\ call.ret /\ call.ate
  /\ Len(body) >= 3

\* C14 (as claimed): once update() has returned false, every later update()
\* returns false until reset() is called, whatever update_snake_dir calls
\* are made in between.
C14_GameOverTerminal ==
  [][(session # "active" /\ call'.op = "update") => ~call'.ret]_vars

\* C14 (amended): once update() has returned false, every later update()
\* returns false until reset() is called or an update_snake_dir call
\* changes the heading.
C14_GameOverUntilTurn ==
  [][(session = "over" /\ call'.op = "update") => ~call'.ret]_vars

\* C14 witness: after update() returned false, a snake of two segments or
\* more was refused the reverse heading, and the heading is the one that
\* failed.
C14_Witness ==
  /\ session = "over"
  /\ call.op = "update_snake_dir" /\ call.rev
  /\ Len(body) >= 2

\* C16: in every reachable state the score, body length minus 1, is the
\* number of update() calls that ate since construction or the last
\* reset(), and it is 0 right after construction and after reset().
C16_ScoreCountsFood ==
  /\ score = eaten
  /\ call.op \in {"Board", "reset"} => score = 0

\* C16 witness: the snake has eaten twice and then moved without eating.
C16_Witness ==
  /\ eaten = 2
  /\ call.op = "update" /\ call.ret /\ ~call.ate

\* C15: spawn_new_food draws cells until one is not on the snake: under
\* fair draws the loop ends whenever some cell of the grid is free of the
\* body, and it never ends when the body covers every cell of the grid.
C15_SpawnTermination ==
  /\ [](((\E c \in Cells(grid_size) : ~OnBody(c)) /\ spawn_pc = "loop")
          => <>(spawn_pc = "done"))
  /\ []((\A c \in Cells(grid_size) : OnBody(c)) => spawn_pc = "loop")

\* C15 witness: the loop has ended on a grid of edge 2 where the body
\* covers three of the four cells.
C15_Witness ==
  /\ call.op = "spawn_new_food"
  /\ spawn_pc = "done"
  /\ grid_size = 2
  /\ Cardinality({c \in Cells(grid_size) : OnBody(c)}) = 3

\* The loop is running against a body that covers the whole grid.
C15_WitnessFull ==
  /\ call.op = "spawn_new_food"
  /\ spawn_pc = "loop"
  /\ \A c \in Cells(grid_size) : OnBody(c)

\* C18: in the host loop a frame whose update() returned false has called
\* reset() before it ends and has left the play state, so the Board is
\* never left on a failed update(): the next call of update() cannot follow
\* a failed one.
C18_FailedUpdateResets ==
  /\ (call.op = "update" => call.ret)
  /\ (event = [h |-> "SDL_AppIterate", update |-> "false"] =>
        /\ call.op = "reset"
        /\ game_state = "game_over"
        /\ body = <<init_snake_coords>>
        /\ head = init_snake_coords)

\* A frame in which update() failed has just ended.
C18_Witness ==
  /\ event = [h |-> "SDL_AppIterate", update |-> "false"]
  /\ game_state = "game_over"
  /\ call.op = "reset"

\* C19: while the host is paused, in title or in game_over a frame calls no
\* update(), and no callback changes the snake body or the food, except R
\* in paused, which resets the board.
C19_PauseWithholdsUpdate ==
  [][(game_state \in {"paused", "title", "game_over"}) =>
       ((event'.h = "SDL_AppIterate" => event'.update = "none")
        /\ ((body' = body /\ head' = head /\ food_loc' = food_loc)
            \/ (game_state = "paused"
                /\ event' = [h |-> "SDL_AppEvent", key |-> "R",
                             from |-> "paused"]
                /\ call'.op = "reset")))]_vars

\* A frame has passed in paused with a snake that has grown.
C19_Witness ==
  /\ game_state = "paused"
  /\ event = [h |-> "SDL_AppIterate", update |-> "none"]
  /\ Len(body) >= 2

\* C20: after Board::Board(grid_size) with the start position defaulted,
\* init_snake_coords is ((grid_size / 2) - 1, (grid_size / 2) - 1) and is a
\* cell of the grid.
C20_DefaultStart ==
  call.op = "Board" =>
    /\ init_snake_coords = CentreCell(grid_size)
    /\ InGrid(init_snake_coords)

\* C21: an update() that returns true puts the head one cell further in the
\* heading it had (north: y - 1, east: x + 1, south: y + 1, west: x - 1) and
\* leaves the other coordinate alone; an update() that only computed the
\* next head and returned false has moved neither head nor body.
C21_HeadMovesOneCell ==
  [][call'.op = "update"
       => IF call'.ret
            THEN /\ direction \in Direction
                 /\ head' = OneCell(head, direction)
                 /\ direction' = direction
            ELSE head' = head /\ body' = body]_vars

\* C21 witness: a snake of two segments or more has just moved north.
C21_Witness ==
  /\ call.op = "update" /\ call.ret
  /\ Len(body) >= 2
  /\ direction = north
  /\ body[Len(body) - 1] = grid_coords_t(head.x, head.y + 1)

\* The heading the controls table of the README gives each key (up is
\* north, y - 1, as the renderer draws row 0 at the top): "d: move left".
TableHeading(k) ==
  CASE k = "W" -> north
    [] k = "A" -> west
    [] k = "S" -> south
    [] k = "D" -> west

\* The heading of each key with right for d.
KeyHeading(k) ==
  CASE k = "W" -> north
    [] k = "A" -> west
    [] k = "S" -> south
    [] k = "D" -> east

\* A turn to heading d is legal: the snake has one segment or d is not the
\* opposite of the current heading.
LegalTurn(d) == Len(body) = 1 \/ ~Opposite(d, direction)

C23_ConstructionFixed ==
  [][grid_size' = grid_size /\ init_snake_coords' = init_snake_coords]_vars

\* C23 witness: reset() has run on a board of edge 3 built with the far
\* corner as its start position, and the snake is back on that corner.
C23_Witness ==
  /\ call.op = "reset"
  /\ grid_size = 3
  /\ init_snake_coords = grid_coords_t(2, 2)
  /\ head = init_snake_coords
  /\ direction \in Direction

\* C24: the host never calls update() on a snake whose heading is unset.
\* While it is in play (where update() is called) or paused (from where P
\* returns to play) the heading is an enumerator, and every step from title
\* or game_over into play is an update_snake_dir call on the one-segment
\* snake that sets the heading to the requested one.
C24_HeadingSetBeforeUpdate ==
  /\ [](game_state \in {"play", "paused"} => direction \in Direction)
  /\ [][(game_state \in {"title", "game_over"} /\ game_state' = "play")
          => /\ call'.op = "update_snake_dir"
             /\ Len(body) = 1
             /\ direction' = call'.dir
             /\ direction' \in Direction]_vars

\* C24 witness: after a failed frame reset the board and left the heading
\* unset in game_over, w has started play heading north.
C24_Witness ==
  /\ game_state = "play"
  /\ event = [h |-> "SDL_AppEvent", key |-> "W", from |-> "game_over"]
  /\ call.op = "update_snake_dir"
  /\ Len(body) = 1
  /\ direction = north

\* C25: a spawn_new_food called from update() always has a cell it accepts,
\* so with fair draws that update() returns; the only calls with no such
\* cell (the body covers the grid) are those of the constructor and of
\* reset() on a grid of edge 1.
C25_UpdateSpawnTerminates ==
  /\ [](call.op = "update" => <>(spawn_pc = "returned"))
  /\ []((spawn_pc = "loop" /\ spawn_new_food(body) = {})
          => (call.op \in {"Board", "reset"} /\ grid_size = 1))
  /\ []((spawn_pc = "loop" /\ call.op = "update")
          => \E c \in Cells(grid_size) : ~OnBody(c))

\* C25 witness: on a grid of edge 2 an eating update() has returned after
\* its spawn drew the cell being eaten, the only cell off the body.
C25_Witness ==
  /\ call.op = "update"
  /\ spawn_pc = "returned"
  /\ grid_size = 2
  /\ Len(body) >= 4
  /\ food_loc = head

\* C26: a snake left moving straight ends the game within grid_size calls:
\* with no update_snake_dir and no reset() in between, fewer than grid_size
\* update() calls in a row return true, and when grid_size - 1 have, the
\* next update() returns false.
C26_StraightRunEnds ==
  /\ straight <= grid_size - 1
  /\ straight = grid_size - 1
       => (direction \in Direction /\ ~InGrid(OneCell(head, direction)))

\* C26 witness: the snake has crossed a grid of edge 3 from one wall to the
\* other in one straight run and update() has returned false at the wall.
C26_Witness ==
  /\ call.op = "update" /\ ~call.ret
  /\ grid_size = 3
  /\ straight = 2
  /\ Len(body) >= 2

\* C27: update_snake_dir, whether it takes the request or not, changes at
\* most the heading: body, head, food, grid size and start position are as
\* before.
C27_SetDirectionFrame ==
  [][call'.op = "update_snake_dir"
       => /\ body' = body
          /\ head' = head
          /\ food_loc' = food_loc
          /\ grid_size' = grid_size
          /\ init_snake_coords' = init_snake_coords
          /\ direction' \in {direction, call'.dir}]_vars

\* C27 witness: a snake of three segments or more has been refused the
\* reverse of its heading.
C27_Witness ==
  /\ call.op = "update_snake_dir"
  /\ Len(body) >= 3
  /\ call.rev
  /\ direction # call.dir

\* C28: the food moves only in an update() that eats it or in reset(): an
\* update() whose next head is not the food cell leaves the food where it
\* is, whatever it returns, and no update() changes the heading.
C28_FoodFrame ==
  [][/\ food_loc' # food_loc
          => \/ call'.op = "reset"
             \/ (call'.op = "update" /\ call'.ate
                   /\ get_next_head_location = food_loc)
     /\ (call'.op = "update" /\ get_next_head_location # food_loc)
          => food_loc' = food_loc
     /\ call'.op = "update" => direction' = direction]_vars

\* C28 witness: a successful update() that ate nothing has left the food in
\* place, straight ahead of the new head.
C28_Witness ==
  /\ call.op = "update" /\ call.ret /\ ~call.ate
  /\ Len(body) = 2
  /\ ~OnBody(food_loc)
  /\ get_next_head_location = food_loc

\* C29: in every reachable state each two consecutive body segments are the
\* same cell or two cells next to each other in a row or a column.
C29_BodyConnected ==
  \A i \in 1 .. Len(body) - 1 :
    abs(body[i + 1].x - body[i].x) + abs(body[i + 1].y - body[i].y) <= 1

\* C29 witness: a body of three segments or more with a repeated cell and
\* with a turn in it.
C29_Witness ==
  /\ Len(body) >= 3
  /\ \E i \in 1 .. Len(body) - 1 : body[i] = body[i + 1]
  /\ \E i \in 1 .. Len(body) - 2 :
       body[i].x # body[i + 2].x /\ body[i].y # body[i + 2].y

\* The first update() of a session: the frame calls update() and no
\* update() has been called since the key that started play.
FirstUpdate ==
  /\ event'.h = "SDL_AppIterate"
  /\ event'.update # "none"
  /\ StartPending.key # "none"

\* update() moved, or collided, with the snake heading d.
UpdateHeaded(d) ==
  /\ direction = d
  /\ IF event'.update = "true"
       THEN head' = OneCell(head, d)
       ELSE ~InGrid(OneCell(head, d)) \/ OnBody(OneCell(head, d))

\* C30: whenever the host goes from title or game_over into play the snake
\* is one segment at init_snake_coords, and the first update() after that
\* moves or collides in the direction of the key that started play.
C30_SessionStart ==
  [][/\ (game_state \in {"title", "game_over"} /\ game_state' = "play")
          => (body = <<init_snake_coords>> /\ head = init_snake_coords)
     /\ FirstUpdate => UpdateHeaded(KeyHeading(start.key))]_vars

\* C30 amended: the first update() moves or collides in the direction of
\* the latest movement key pressed before it.
C30_SessionStartLastKey ==
  [][/\ (game_state \in {"title", "game_over"} /\ game_state' = "play")
          => (body = <<init_snake_coords>> /\ head = init_snake_coords)
     /\ FirstUpdate => /\ Len(body) = 1
                       /\ UpdateHeaded(KeyHeading(start.last))]_vars

\* C30 witness: play was started from game_over with w, d followed before
\* the first frame, and the first update() has moved the snake east.
C30_Witness ==
  /\ start = [key |-> "W", last |-> "D", updated |-> TRUE]
  /\ event = [h |-> "SDL_AppIterate", update |-> "true"]
  /\ game_state = "play"
  /\ head = grid_coords_t(init_snake_coords.x + 1, init_snake_coords.y)

====
